---- MODULE Spec2Model ----
(***************************************************************************)
(* kubevalidator: the validation-and-localization pipeline.                *)
(*                                                                         *)
(*   src/unnamed/part_000       createFinalCheckRun (the report)           *)
(*   src/validator/candidate.go Candidate, Validate, the line localizers   *)
(*                                                                         *)
(* candidate.go holds two definitions of the Candidate code.  The first    *)
(* (lines 1-292) is modelled by Validate / detectLineNumbersDefault, the   *)
(* second (lines 294-474) by Validate2 / lineNumbers.                      *)
(*                                                                         *)
(* Strings that the code builds with fmt.Sprintf are modelled as tuples of *)
(* their parts, in the order of the format string.                         *)
(***************************************************************************)
EXTENDS Integers, Sequences, FiniteSets, TLC

VARIABLES
    report,      \* the CreateCheckRunOptions built by the last createFinalCheckRun
    loc,         \* the line localizer's input and its last result
    cands,       \* the Candidate objects: schemas and bytes
    kubeval,     \* kubeval's package-level configuration variables
    engine,      \* what the external validator has answered so far, per input
    calls,       \* the Validate calls made so far, oldest first
    pcs,         \* concurrent Validate: each goroutine's position in the loop
    seen,        \* concurrent Validate: what each validator invocation observed
    build        \* which definition of candidate.go the program is built from

vars == <<report, loc, cands, kubeval, engine, calls, pcs, seen, build>>

(***************************************************************************)
(* Generic helpers                                                         *)
(***************************************************************************)
Range(s) == {s[i] : i \in DOMAIN s}

Perms(S) == {p \in [1..Cardinality(S) -> S] : Range(p) = S}

Max(a, b) == IF a >= b THEN a ELSE b

Min(a, b) == IF a <= b THEN a ELSE b

(***************************************************************************)
(* The report: createFinalCheckRun                                         *)
(***************************************************************************)
MaxFiles == 3

MaxAnnotations == 6

FileNames == 1..MaxFiles

noMatchingFiles == "No files to validate"

configFileName == ".github/kubevalidator.yaml"

\* Candidate.MarkdownListItem: a list item linking the file name to its blob URL
MarkdownListItem(f) == <<"* [./", f, "](", <<"blob", f>>, ")">>

filesString(numFiles) == IF numFiles = 1 THEN "file" ELSE "files"

errorsString_byFiles(numFiles, numAnnotations) ==
    IF numFiles = 1 THEN "error" ELSE "errors"

errorsString(numFiles, numAnnotations) ==
    IF numAnnotations = 1 THEN "error" ELSE "errors"

checkRunConclusion_noNeutral(numFiles, numAnnotations) ==
    IF numAnnotations > 0 THEN "failure" ELSE "success"

checkRunConclusion_swapped(numFiles, numAnnotations) ==
    IF numFiles = 0 THEN "neutral"
    ELSE IF numAnnotations > 0 THEN "success" ELSE "failure"

checkRunConclusion(numFiles, numAnnotations) ==
    IF numFiles = 0 THEN "neutral"
    ELSE IF numAnnotations > 0 THEN "failure" ELSE "success"

checkRunText(numFiles, numAnnotations) ==
    IF numFiles = 0 THEN <<noMatchingFiles>>
    ELSE <<numFiles, filesString(numFiles), "checked,",
           numAnnotations, errorsString(numFiles, numAnnotations)>>

\* order: the order in which range visits the candidates map
checkRunSummary(numFiles, order) ==
    IF numFiles = 0 THEN <<"To save CPU resources", configFileName>>
    ELSE [i \in DOMAIN order |-> MarkdownListItem(order[i])]

NoReport ==
    [called |-> FALSE, candidates |-> {}, numAnnotations |-> 0,
     Conclusion |-> "", Title |-> <<>>, Summary |-> <<>>]

\* candidates: the keys of the map; numAnnotations: len(annotations)
createFinalCheckRun(candidates, numAnnotations) ==
    /\ \E order \in Perms(candidates) :
         LET numFiles == Cardinality(candidates) IN
         report' = [called |-> TRUE,
                    candidates |-> candidates,
                    numAnnotations |-> numAnnotations,
                    Conclusion |-> checkRunConclusion(numFiles, numAnnotations),
                    Title |-> checkRunText(numFiles, numAnnotations),
                    Summary |-> checkRunSummary(numFiles, order)]
    /\ UNCHANGED <<loc, cands, kubeval, engine, calls, pcs, seen, build>>

(***************************************************************************)
(* Documents.  A document is a sequence of lines; a line holds the path of *)
(* the node it serializes and the text of its value.  A node with children *)
(* (a mapping) has the value "" and its children follow it.                *)
(***************************************************************************)
placeholderString == "AAA___KUBEVALIDATOR___PLACEHOLDER___AAA"

MaxLines == 5

\* the nodes a document may hold, in source order
PathPool ==
    << <<"apiVersion">>, <<"kind">>, <<"spec">>, <<"spec", "replicas">>,
       <<"spec", "paused">>, <<"app.name">> >>

IsMapping(path) == path = <<"spec">>

\* "1 # c" is a value followed by a comment, which re-serialization drops
ScalarTexts == {"1", "1 # c", placeholderString}

Documents ==
    UNION {
      {[i \in 1..n |-> [path |-> PathPool[i],
                        val |-> IF IsMapping(PathPool[i]) THEN "" ELSE texts[i]]]
         : texts \in [1..n -> ScalarTexts]}
      : n \in 1..Min(MaxLines, Len(PathPool))}

IsChild(parent, path) ==
    /\ Len(path) > Len(parent)
    /\ SubSeq(path, 1, Len(parent)) = parent

\* the line of the node at pointer `path`, 0 when the pointer does not resolve
Resolve(doc, path) ==
    IF \E i \in DOMAIN doc : doc[i].path = path
    THEN CHOOSE i \in DOMAIN doc : doc[i].path = path
    ELSE 0

\* the lines of doc at the indices in keep, in order
SelectLines(doc, keep) ==
    LET F[i \in 0..Len(doc)] ==
          IF i = 0 THEN <<>>
          ELSE IF i \in keep THEN Append(F[i - 1], doc[i]) ELSE F[i - 1]
    IN F[Len(doc)]

\* yaml-patch serializes the whole patched document again: comments are lost
\* and a mapping left without children is written as {}
Reserialize(doc) ==
    [i \in DOMAIN doc |->
       IF IsMapping(doc[i].path)
       THEN [doc[i] EXCEPT !.val =
               IF doc[i].val = "" /\ ~\E j \in DOMAIN doc : IsChild(doc[i].path, doc[j].path)
               THEN "{}" ELSE @]
       ELSE [doc[i] EXCEPT !.val = IF @ = "1 # c" THEN "1" ELSE @]]

\* yamlpatch.Patch{{Op: "replace", Path: path, Value: value}}.Apply(doc)
PatchReplace(doc, path, value) ==
    LET i == Resolve(doc, path) IN
    IF i = 0 THEN [err |-> TRUE, bytes |-> <<>>]
    ELSE LET set == [doc EXCEPT ![i].val = value]
             kept == {j \in DOMAIN doc : ~IsChild(path, doc[j].path)}
         IN [err |-> FALSE, bytes |-> Reserialize(SelectLines(set, kept))]

\* yamlpatch.Patch{{Op: "remove", Path: path}}.Apply(doc)
PatchRemove(doc, path) ==
    LET i == Resolve(doc, path) IN
    IF i = 0 THEN [err |-> TRUE, bytes |-> <<>>]
    ELSE LET kept == {j \in DOMAIN doc : j # i /\ ~IsChild(path, doc[j].path)}
         IN [err |-> FALSE, bytes |-> Reserialize(SelectLines(doc, kept))]

(***************************************************************************)
(* difflib.UnifiedDiff and diff.ParseFileDiff, as detectLineNumbersDefault *)
(* and lineNumbers use them.  Indices are 0-based and ranges half-open, as *)
(* in the library; a hunk is what go-diff parses out of the diff text.     *)
(***************************************************************************)
At(a, i) == a[i + 1]

RECURSIVE MatchLen(_, _, _, _, _, _)
MatchLen(a, b, i, j, ahi, bhi) ==
    IF i < ahi /\ j < bhi /\ At(a, i) = At(b, j)
    THEN 1 + MatchLen(a, b, i + 1, j + 1, ahi, bhi)
    ELSE 0

\* t is the block findLongestMatch prefers to u: longer, else earlier in a,
\* else earlier in b
BetterMatch(t, u) ==
    \/ t[3] > u[3]
    \/ t[3] = u[3] /\ t[1] < u[1]
    \/ t[3] = u[3] /\ t[1] = u[1] /\ t[2] <= u[2]

LongestOf(found) == CHOOSE t \in found : \A u \in found : BetterMatch(t, u)

\* SequenceMatcher.findLongestMatch: <<i, j, size>>, <<alo, blo, 0>> without a match
FindLongestMatch(a, b, alo, ahi, blo, bhi) ==
    LongestOf({<<p[1], p[2], MatchLen(a, b, p[1], p[2], ahi, bhi)>> :
                 p \in (alo..(ahi - 1)) \X (blo..(bhi - 1))}
              \cup {<<alo, blo, 0>>})

RECURSIVE MatchingBlocksIn(_, _, _, _, _, _)
RECURSIVE SplitAtMatch(_, _, _, _, _, _, _)
SplitAtMatch(a, b, alo, ahi, blo, bhi, m) ==
    IF m[3] = 0 THEN <<>>
    ELSE MatchingBlocksIn(a, b, alo, m[1], blo, m[2])
         \o <<m>>
         \o MatchingBlocksIn(a, b, m[1] + m[3], ahi, m[2] + m[3], bhi)

MatchingBlocksIn(a, b, alo, ahi, blo, bhi) ==
    IF alo >= ahi \/ blo >= bhi THEN <<>>
    ELSE SplitAtMatch(a, b, alo, ahi, blo, bhi,
                      FindLongestMatch(a, b, alo, ahi, blo, bhi))

\* SequenceMatcher.GetMatchingBlocks, with its closing (len(a), len(b), 0) block
GetMatchingBlocks(a, b) ==
    MatchingBlocksIn(a, b, 0, Len(a), 0, Len(b)) \o << <<Len(a), Len(b), 0>> >>

OpCode(tag, i1, i2, j1, j2) == [Tag |-> tag, I1 |-> i1, I2 |-> i2, J1 |-> j1, J2 |-> j2]

RECURSIVE OpCodesFrom(_, _, _, _)
OpCodesFrom(blocks, k, i, j) ==
    IF k > Len(blocks) THEN <<>>
    ELSE LET ai == blocks[k][1]
             bj == blocks[k][2]
             size == blocks[k][3]
             tag == IF i < ai /\ j < bj THEN "r"
                    ELSE IF i < ai THEN "d"
                    ELSE IF j < bj THEN "i"
                    ELSE ""
         IN (IF tag # "" THEN <<OpCode(tag, i, ai, j, bj)>> ELSE <<>>)
            \o (IF size > 0 THEN <<OpCode("e", ai, ai + size, bj, bj + size)>> ELSE <<>>)
            \o OpCodesFrom(blocks, k + 1, ai + size, bj + size)

\* SequenceMatcher.GetOpCodes
GetOpCodes(a, b) == OpCodesFrom(GetMatchingBlocks(a, b), 1, 0, 0)

\* GetGroupedOpCodes: no opcodes at all stand for one equal line
OrOneEqual(codes) == IF codes = <<>> THEN <<OpCode("e", 0, 1, 0, 1)>> ELSE codes

\* GetGroupedOpCodes: a leading equal run keeps its last n lines
TrimLeading(codes, n) ==
    IF codes[1].Tag = "e"
    THEN [codes EXCEPT ![1] = OpCode("e", Max(@.I1, @.I2 - n), @.I2,
                                     Max(@.J1, @.J2 - n), @.J2)]
    ELSE codes

\* GetGroupedOpCodes: a trailing equal run keeps its first n lines
TrimTrailing(codes, n) ==
    IF codes[Len(codes)].Tag = "e"
    THEN [codes EXCEPT ![Len(codes)] = OpCode("e", @.I1, Min(@.I2, @.I1 + n),
                                              @.J1, Min(@.J2, @.J1 + n))]
    ELSE codes

\* GetGroupedOpCodes: the loop over the opcodes, from the k-th on, with the
\* groups closed so far and the group that is open
RECURSIVE GroupFrom(_, _, _, _, _)
GroupFrom(codes, n, k, groups, group) ==
    IF k > Len(codes)
    THEN IF Len(group) > 0 /\ ~(Len(group) = 1 /\ group[1].Tag = "e")
         THEN Append(groups, group)
         ELSE groups
    ELSE IF codes[k].Tag = "e" /\ codes[k].I2 - codes[k].I1 > n + n
         THEN GroupFrom(codes, n, k + 1,
                Append(groups,
                  Append(group,
                    OpCode("e", codes[k].I1, Min(codes[k].I2, codes[k].I1 + n),
                           codes[k].J1, Min(codes[k].J2, codes[k].J1 + n)))),
                <<OpCode("e", Max(codes[k].I1, codes[k].I2 - n), codes[k].I2,
                         Max(codes[k].J1, codes[k].J2 - n), codes[k].J2)>>)
         ELSE GroupFrom(codes, n, k + 1, groups, Append(group, codes[k]))

\* SequenceMatcher.GetGroupedOpCodes(n): the opcodes cut into groups with up
\* to n lines of context
GetGroupedOpCodes(a, b, n) ==
    GroupFrom(TrimTrailing(TrimLeading(OrOneEqual(GetOpCodes(a, b)), n), n),
              n, 1, <<>>, <<>>)

\* difflib's formatRangeUnified, as go-diff reads it back: <<start line, lines>>
\* ("@@ -4 +4 @@" omits a count of 1, which go-diff restores)
formatRangeUnified(start, stop) ==
    IF stop - start = 1 THEN <<start + 1, 1>>
    ELSE IF stop - start = 0 THEN <<start, 0>>
    ELSE <<start + 1, stop - start>>

Prefixed(sign, lines, i1, i2) ==
    [k \in 1..(i2 - i1) |-> [sign |-> sign, line |-> At(lines, i1 + k - 1)]]

\* WriteUnifiedDiff: the lines of one opcode
OpCodeLines(a, b, c) ==
    IF c.Tag = "e" THEN Prefixed(" ", a, c.I1, c.I2)
    ELSE (IF c.Tag \in {"r", "d"} THEN Prefixed("-", a, c.I1, c.I2) ELSE <<>>)
         \o (IF c.Tag \in {"r", "i"} THEN Prefixed("+", b, c.J1, c.J2) ELSE <<>>)

RECURSIVE HunkBody(_, _, _, _)
HunkBody(a, b, group, k) ==
    IF k > Len(group) THEN <<>>
    ELSE OpCodeLines(a, b, group[k]) \o HunkBody(a, b, group, k + 1)

\* one group of opcodes as the hunk go-diff parses: header and body
HunkOf(a, b, group) ==
    [OrigStartLine |-> formatRangeUnified(group[1].I1, group[Len(group)].I2)[1],
     OrigLines |-> formatRangeUnified(group[1].I1, group[Len(group)].I2)[2],
     NewStartLine |-> formatRangeUnified(group[1].J1, group[Len(group)].J2)[1],
     NewLines |-> formatRangeUnified(group[1].J1, group[Len(group)].J2)[2],
     Body |-> HunkBody(a, b, group, 1)]

HunksOf(a, b, groups) == [g \in DOMAIN groups |-> HunkOf(a, b, groups[g])]

\* difflib.GetUnifiedDiffString followed by diff.ParseFileDiff: the hunks
UnifiedDiffHunks(a, b, context) == HunksOf(a, b, GetGroupedOpCodes(a, b, context))

(***************************************************************************)
(* The line localizers.  A violation's context is the string               *)
(* "(root).a.b"; it is modelled as the sequence of its dot-separated       *)
(* parts, <<"(root)", "a", "b">>, and a pointer "/a/b" as <<"a", "b">>.    *)
(***************************************************************************)
SplitDots(segment) == IF segment = "app.name" THEN <<"app", "name">> ELSE <<segment>>

RECURSIVE JoinDotted(_)
JoinDotted(path) ==
    IF path = <<>> THEN <<>> ELSE SplitDots(Head(path)) \o JoinDotted(Tail(path))

\* gojsonschema's ResultError.Context().String() for the node at `path`
ContextString(path) == <<"(root)">> \o JoinDotted(path)

ViolationPaths == Range(PathPool) \cup {<<>>, <<"spec", "missing">>, <<"metadata">>}

Contexts == {ContextString(p) : p \in ViolationPaths}

\* strings.TrimPrefix(context, "(root)."), "." + it, then "." replaced by "/"
OpPathDefault(context) ==
    IF Len(context) >= 2 /\ context[1] = "(root)" THEN Tail(context) ELSE context

\* strings.TrimPrefix(context, "(root)"), then "." replaced by "/"
OpPathRemove(context) ==
    IF Len(context) >= 1 /\ context[1] = "(root)" THEN Tail(context) ELSE context

LineRange(start, end) == [StartLine |-> start, EndLine |-> end, panic |-> FALSE]

Panic == [StartLine |-> 0, EndLine |-> 0, panic |-> TRUE]

\* strings.Contains(scanner.Text(), placeholderString) over the hunk's body
HunkHasPlaceholder(hunk) ==
    \E k \in DOMAIN hunk.Body : hunk.Body[k].line.val = placeholderString

\* the loop over fileDiff.Hunks: the first hunk whose body holds the placeholder
RangeOfPlaceholderHunk(hunks) ==
    IF \A h \in DOMAIN hunks : ~HunkHasPlaceholder(hunks[h]) THEN LineRange(1, 1)
    ELSE LET h == CHOOSE x \in DOMAIN hunks :
                    /\ HunkHasPlaceholder(hunks[x])
                    /\ \A y \in 1..(x - 1) : ~HunkHasPlaceholder(hunks[y])
         IN LineRange(hunks[h].NewStartLine, hunks[h].NewStartLine + hunks[h].NewLines)

RangeOfFirstHunk(hunks) ==
    IF hunks = <<>> THEN LineRange(1, 1)
    ELSE LineRange(hunks[1].NewStartLine, hunks[1].NewStartLine + hunks[1].NewLines)

\* detectLineNumbersDefault after patch.Apply
DefaultRangeOfPatched(b, patched) ==
    IF patched.err THEN LineRange(1, 1)
    ELSE RangeOfPlaceholderHunk(UnifiedDiffHunks(b, patched.bytes, 0))

FirstHunkRangeOfPatched(b, patched) ==
    IF patched.err THEN LineRange(1, 1)
    ELSE RangeOfFirstHunk(UnifiedDiffHunks(b, patched.bytes, 0))

detectLineNumbersDefault_firstHunk(b, context) ==
    FirstHunkRangeOfPatched(b, PatchReplace(b, OpPathDefault(context), placeholderString))

detectLineNumbersDefault(b, context) ==
    DefaultRangeOfPatched(b, PatchReplace(b, OpPathDefault(context), placeholderString))

\* lineNumbers reads fileDiff.Hunks[0] unchecked
RangeOfHunkZero(hunks) ==
    IF hunks = <<>> THEN Panic
    ELSE LineRange(hunks[1].OrigStartLine, hunks[1].OrigStartLine + hunks[1].OrigLines)

\* lineNumbers after patch.Apply
RemoveRangeOfPatched(bytes, patched) ==
    IF patched.err THEN LineRange(1, 1)
    ELSE RangeOfHunkZero(UnifiedDiffHunks(bytes, patched.bytes, 3))

\* the second definition's localizer
lineNumbers(bytes, context) ==
    RemoveRangeOfPatched(bytes, PatchRemove(bytes, OpPathRemove(context)))

NoCandidates == <<>>

NoCalls == [n |-> 0, last |-> <<>>]

NoKubeval == [SchemaLocation |-> <<>>, Version |-> "", Strict |-> FALSE, OpenShift |-> FALSE]

InitLocalize ==
    /\ loc \in [doc : Documents, context : Contexts, fn : {""}, ret : {LineRange(0, 0)}]
    /\ report = NoReport
    /\ cands = NoCandidates
    /\ kubeval = NoKubeval
    /\ engine = <<>>
    /\ calls = NoCalls
    /\ pcs = <<>>
    /\ seen = {}
    /\ build = 0

LocalizeDefault ==
    /\ loc.fn = ""
    /\ loc' = [loc EXCEPT !.fn = "detectLineNumbersDefault",
                          !.ret = detectLineNumbersDefault(loc.doc, loc.context)]
    /\ UNCHANGED <<report, cands, kubeval, engine, calls, pcs, seen, build>>

LocalizeRemove ==
    /\ loc.fn = ""
    /\ loc' = [loc EXCEPT !.fn = "lineNumbers",
                          !.ret = lineNumbers(loc.doc, loc.context)]
    /\ UNCHANGED <<report, cands, kubeval, engine, calls, pcs, seen, build>>

NextLocalize == LocalizeDefault \/ LocalizeRemove

SpecLocalize == InitLocalize /\ [][NextLocalize]_vars

(***************************************************************************)
(* The report, as a specification                                          *)
(***************************************************************************)
NoLoc == [doc |-> <<>>, context |-> <<>>, fn |-> "", ret |-> LineRange(0, 0)]

InitReport ==
    /\ report = NoReport
    /\ loc = NoLoc
    /\ cands = NoCandidates
    /\ kubeval = NoKubeval
    /\ engine = <<>>
    /\ calls = NoCalls
    /\ pcs = <<>>
    /\ seen = {}
    /\ build = 0

NextReport ==
    \E candidates \in SUBSET FileNames, numAnnotations \in 0..MaxAnnotations :
        createFinalCheckRun(candidates, numAnnotations)

SpecReport == InitReport /\ [][NextReport]_vars

(***************************************************************************)
(* Schema specs and Candidates                                             *)
(***************************************************************************)
\* a nil pointer is the empty sequence, a pointer to v is <<v>>
Nil == <<>>

defaultSchema ==
    [Name |-> "", Version |-> "master", SchemaFork |-> "garethr",
     ConfigType |-> "kubernetes", Strict |-> FALSE, LineNumbers |-> FALSE]

\* the schema specs a configuration may give a Candidate
SchemaSpecs ==
    {defaultSchema,
     [Name |-> "", Version |-> "", SchemaFork |-> "garethr",
      ConfigType |-> "kubernetes", Strict |-> TRUE, LineNumbers |-> TRUE],
     [Name |-> "custom", Version |-> "1.10.0", SchemaFork |-> "garethr",
      ConfigType |-> "openstack", Strict |-> TRUE, LineNumbers |-> TRUE]}

MaxSchemas == 2

SchemaLists == UNION {[1..n -> SchemaSpecs] : n \in 0..MaxSchemas}

NumCandidates == 2

CandidateIds == 1..NumCandidates

\* KubeValidatorConfigSchema.SchemaLocation(): a pure function of fork,
\* platform variant and version
SchemaLocation(schema) == <<schema.SchemaFork, schema.ConfigType, schema.Version>>

NewCandidate(file, schemas) ==
    [file |-> file,
     schemas |-> IF Len(schemas) = 0 THEN Append(schemas, defaultSchema) ELSE schemas,
     bytes |-> Nil]

\* the content of file f at the head commit
FileContent(f) ==
    [i \in 1..5 |-> [path |-> PathPool[i], val |-> IF IsMapping(PathPool[i]) THEN "" ELSE "1"]]

(***************************************************************************)
(* The external validator.  kubeval.Validate reads the package variables   *)
(* and answers with results and an error; it is deterministic, so `engine` *)
(* remembers what it answered for each input.                              *)
(***************************************************************************)
Details == [expected |-> "integer", given |-> "string"]

ResultError(path, description) ==
    [Context |-> ContextString(path), Description |-> description, Details |-> Details]

ValidateResult(errors) == [Kind |-> "Deployment", APIVersion |-> "apps/v1", Errors |-> errors]

Outcomes ==
    {[err |-> FALSE, results |-> <<ValidateResult(<<>>)>>],
     [err |-> FALSE,
      results |-> <<ValidateResult(<<ResultError(<<"spec", "paused">>, "Invalid type"),
                                     ResultError(<<"kind">>, "Does not match")>>)>>],
     [err |-> TRUE, results |-> <<ValidateResult(<<>>)>>],
     [err |-> TRUE, results |-> <<>>]}

EngineKey(cand, config) == <<cand.file, cand.bytes, config>>

\* the answers the validator may give to the invocations with these
\* configurations: what it answered before, and one answer per input
Answers(cand, configs) ==
    {outs \in [DOMAIN configs -> Outcomes] :
       /\ \A i \in DOMAIN configs :
            EngineKey(cand, configs[i]) \in DOMAIN engine
              => outs[i] = engine[EngineKey(cand, configs[i])]
       /\ \A i, j \in DOMAIN configs : configs[i] = configs[j] => outs[i] = outs[j]}

Remember(cand, configs, outs, upto) ==
    [k \in DOMAIN engine \cup {EngineKey(cand, configs[i]) : i \in 1..upto} |->
       IF k \in DOMAIN engine THEN engine[k]
       ELSE outs[CHOOSE i \in 1..upto : EngineKey(cand, configs[i]) = k]]

(***************************************************************************)
(* Validate: the statements that set kubeval's package variables           *)
(***************************************************************************)
SetSchemaLocation(g, schema) == [g EXCEPT !.SchemaLocation = SchemaLocation(schema)]

SetVersion(g, schema) ==
    IF schema.Version # "" THEN [g EXCEPT !.Version = schema.Version] ELSE g

SetStrict(g, schema) == [g EXCEPT !.Strict = TRUE]

SetStrict2(g, schema) == [g EXCEPT !.Strict = schema.Strict]

SetOpenShift(g, schema) ==
    IF schema.ConfigType = "openstack" THEN [g EXCEPT !.OpenShift = TRUE]
    ELSE [g EXCEPT !.OpenShift = FALSE]

\* lines 85-98 of the loop body
Configure(g, schema) ==
    SetOpenShift(SetStrict(SetVersion(SetSchemaLocation(g, schema), schema), schema), schema)

\* lines 373-385 of the loop body
Configure2(g, schema) ==
    SetOpenShift(SetStrict2(SetVersion(SetSchemaLocation(g, schema), schema), schema), schema)

\* the package variables as each iteration of the loop leaves them
RECURSIVE ConfigsFrom(_, _, _, _)
ConfigsFrom(g, schemas, i, second) ==
    IF i > Len(schemas) THEN <<>>
    ELSE IF second
         THEN <<Configure2(g, schemas[i])>>
              \o ConfigsFrom(Configure2(g, schemas[i]), schemas, i + 1, second)
         ELSE <<Configure(g, schemas[i])>>
              \o ConfigsFrom(Configure(g, schemas[i]), schemas, i + 1, second)

(***************************************************************************)
(* Annotations                                                             *)
(***************************************************************************)
\* strings.Split, on the strings the model uses
StringsSplit(str, sep) ==
    IF str = "1.10.0" /\ sep = "." THEN <<"1", "10", "0">>
    ELSE IF str = "apps/v1" /\ sep = "/" THEN <<"apps", "v1">>
    ELSE <<str>>

StringsToLower(str) == IF str = "Deployment" THEN "deployment" ELSE str

\* the loop of lines 168-171: the slice reversed in place
ReverseSlice(components) ==
    [i \in 1..Len(components) |-> components[Len(components) + 1 - i]]

\* sort.Strings over the keys of a details map
SortedKeysOrder == <<"expected", "field", "given">>

SortStrings(keys) == SelectSeq(SortedKeysOrder, LAMBDA k : k \in keys)

resultErrorDetailString(e) ==
    [i \in 1..Len(SortStrings(DOMAIN e.Details)) |->
       <<"* ", SortStrings(DOMAIN e.Details)[i], ": ",
         e.Details[SortStrings(DOMAIN e.Details)[i]], "\n">>]

\* gojsonschema's ResultError.String()
ErrorString(e) == e.Context \o <<e.Description>>

EngineError == "kubeval error"

schemaName(schema) ==
    IF schema.Name # "" THEN <<schema.Name>>
    ELSE IF schema.Version # "" THEN <<schema.Version>>
    ELSE <<"master">>

\* the second definition falls back to fmt.Sprintf("%v", schema)
schemaName2(schema) ==
    IF schema.Name # "" THEN <<schema.Name>>
    ELSE IF schema.Version # "" THEN <<schema.Version>>
    ELSE <<"%v", schema>>

Annotation(cand, range, title, message, details) ==
    [Path |-> cand.file, BlobHRef |-> <<"blob", cand.file>>,
     StartLine |-> range.StartLine, EndLine |-> range.EndLine,
     AnnotationLevel |-> "failure",
     Title |-> title, Message |-> message, RawDetails |-> details]

\* LoadBytes' annotation when the content cannot be fetched
LoadErrorAnnotation(cand) ==
    Annotation(cand, LineRange(1, 1), <<"Error loading", cand.file>>,
               <<"%+v", "Couldn't load">>, Nil)

\* lines 109-120
NoBytesAnnotation(cand) ==
    Annotation(cand, LineRange(1, 1), <<"Candidate has no bytes?">>,
               <<"%+v", "Candidate">>, Nil)

\* lines 124-147
EngineErrorAnnotation(cand, schema, results) ==
    IF Len(results) > 0
    THEN Annotation(cand, LineRange(1, 1),
           <<"Internal error when validating", results[1].Kind, "against",
             schemaName(schema), "schemas from", SchemaLocation(schema)>>,
           <<"This may indicate an incorrect 'apiVersion' or 'kind' field", EngineError>>,
           Nil)
    ELSE Annotation(cand, LineRange(1, 1),
           <<"Internal error when validating against",
             schemaName(schema), "schemas from", SchemaLocation(schema)>>,
           <<EngineError>>, Nil)

\* lines 161-174
ViolationMessage(schema, result, e) ==
    IF schema.Version = "" \/ schema.Version = "master" THEN ErrorString(e)
    ELSE ErrorString(e) \o <<"; see">>
         \o SubSeq(StringsSplit(schema.Version, "."), 1, 2)
         \o <<StringsToLower(result.Kind)>>
         \o ReverseSlice(StringsSplit(result.APIVersion, "/"))
         \o <<"for more details">>

\* lines 151-159
ViolationRange(cand, schema, e) ==
    IF schema.LineNumbers THEN detectLineNumbersDefault(cand.bytes[1], e.Context)
    ELSE LineRange(1, 1)

\* lines 150-186: the annotation of one error of one result
ViolationAnnotation(cand, schema, result, e) ==
    Annotation(cand, ViolationRange(cand, schema, e),
      <<"Error validating", result.Kind, "against", schemaName(schema), "schema">>,
      ViolationMessage(schema, result, e),
      <<resultErrorDetailString(e)>>)

\* lines 412-424: the second definition titles every annotation with results[0]
ViolationAnnotation2(cand, schema, results, e) ==
    Annotation(cand, lineNumbers(cand.bytes[1], e.Context),
      <<"Error validating", results[1].Kind, "against", schemaName2(schema), "schema">>,
      ErrorString(e),
      <<resultErrorDetailString(e)>>)

\* lines 398-409, reached with at least one result
EngineErrorAnnotation2(cand, schema, results) ==
    Annotation(cand, LineRange(1, 1),
      <<"Error validating", results[1].Kind, "against", schemaName2(schema), "schema">>,
      <<"%+v", EngineError>>, Nil)

\* the (result, error) pairs in the order of the two nested loops
RECURSIVE ErrorsOf(_, _, _)
ErrorsOf(results, r, k) ==
    IF r > Len(results) THEN <<>>
    ELSE IF k > Len(results[r].Errors) THEN ErrorsOf(results, r + 1, 1)
    ELSE << <<r, results[r].Errors[k]>> >> \o ErrorsOf(results, r, k + 1)

ViolationAnnotations(cand, schema, results, errors) ==
    [n \in DOMAIN errors |->
       ViolationAnnotation(cand, schema, results[errors[n][1]], errors[n][2])]

ViolationAnnotations2(cand, schema, results, errors) ==
    [n \in DOMAIN errors |-> ViolationAnnotation2(cand, schema, results, errors[n][2])]

\* one iteration of the loop of Validate, given the validator's answer
IterationAnnotations(cand, schema, out) ==
    IF cand.bytes = Nil THEN <<NoBytesAnnotation(cand)>>
    ELSE IF out.err THEN <<EngineErrorAnnotation(cand, schema, out.results)>>
    ELSE ViolationAnnotations(cand, schema, out.results, ErrorsOf(out.results, 1, 1))

\* the second definition panics on *c.bytes of a Candidate without bytes and
\* on results[0] of an error without results
IterationPanics2(cand, out) ==
    \/ cand.bytes = Nil
    \/ out.err /\ Len(out.results) = 0

IterationAnnotations2(cand, schema, out) ==
    IF out.err THEN <<EngineErrorAnnotation2(cand, schema, out.results)>>
    ELSE ViolationAnnotations2(cand, schema, out.results, ErrorsOf(out.results, 1, 1))

\* Annotations.Less: by file path, then start line, then end line
Less(x, y) ==
    \/ x.Path < y.Path
    \/ x.Path = y.Path /\ x.StartLine < y.StartLine
    \/ x.Path = y.Path /\ x.StartLine = y.StartLine /\ x.EndLine < y.EndLine

\* sort.Sort on a short slice is an insertion sort: x moves left past every
\* element it is less than
RECURSIVE InsertSorted(_, _)
InsertSorted(sorted, x) ==
    IF sorted = <<>> THEN <<x>>
    ELSE IF Less(x, sorted[Len(sorted)])
         THEN Append(InsertSorted(SubSeq(sorted, 1, Len(sorted) - 1), x), sorted[Len(sorted)])
         ELSE Append(sorted, x)

RECURSIVE SortFrom(_, _, _)
SortFrom(annotations, k, sorted) ==
    IF k > Len(annotations) THEN sorted
    ELSE SortFrom(annotations, k + 1, InsertSorted(sorted, annotations[k]))

SortAnnotations(annotations) == SortFrom(annotations, 1, <<>>)

RECURSIVE Concat(_, _)
Concat(lists, k) == IF k > Len(lists) THEN <<>> ELSE lists[k] \o Concat(lists, k + 1)

(***************************************************************************)
(* Validate, as one step per call                                          *)
(***************************************************************************)
MaxCalls == 2

\* the log keeps the last two Validate calls
Record(log, call) ==
    [n |-> log.n + 1,
     last |-> IF Len(log.last) < 2 THEN Append(log.last, call)
              ELSE <<log.last[2], call>>]

\* a panic out of Validate ends the program
Crashed == calls.last # <<>> /\ calls.last[Len(calls.last)].panicked

Returned(c, cand, fn, invoked, ret) ==
    [cand |-> c, fn |-> fn, schemas |-> cand.schemas, bytes |-> cand.bytes,
     panicked |-> FALSE, invoked |-> invoked, ret |-> ret]

Panicked(c, cand, fn, invoked) ==
    [cand |-> c, fn |-> fn, schemas |-> cand.schemas, bytes |-> cand.bytes,
     panicked |-> TRUE, invoked |-> invoked, ret |-> <<>>]

\* Candidate.LoadBytes: c.bytes is set and nil returned, or the Candidate is
\* left as it is and LoadErrorAnnotation returned
LoadBytes(c) ==
    /\ build # 0
    /\ ~Crashed
    /\ cands[c].bytes = Nil
    /\ \/ cands' = [cands EXCEPT ![c].bytes = <<FileContent(cands[c].file)>>]
       \/ cands' = cands
    /\ UNCHANGED <<report, loc, kubeval, engine, calls, pcs, seen, build>>

\* the annotations of all iterations, in order
AllAnnotations(cand, outs) ==
    Concat([i \in DOMAIN outs |-> IterationAnnotations(cand, cand.schemas[i], outs[i])], 1)

AllAnnotations2(cand, outs) ==
    Concat([i \in DOMAIN outs |-> IterationAnnotations2(cand, cand.schemas[i], outs[i])], 1)

\* Candidate.Validate (first definition), lines 82-191, on answers outs
ValidateSorted(cand, outs) == SortAnnotations(AllAnnotations(cand, outs))

ValidateWith(c, configs, outs) ==
    /\ kubeval' = configs[Len(configs)]
    /\ engine' = IF cands[c].bytes = Nil THEN engine
                 ELSE Remember(cands[c], configs, outs, Len(configs))
    /\ calls' = Record(calls,
                  Returned(c, cands[c], "Validate",
                           IF cands[c].bytes = Nil THEN <<>> ELSE configs,
                           ValidateSorted(cands[c], outs)))

Validate(c) ==
    /\ build = 1
    /\ ~Crashed
    /\ calls.n < MaxCalls
    /\ \E configs \in {ConfigsFrom(kubeval, cands[c].schemas, 1, FALSE)} :
         \E outs \in Answers(cands[c], configs) : ValidateWith(c, configs, outs)
    /\ UNCHANGED <<report, loc, cands, pcs, seen, build>>

\* the iterations of the second definition that panic
PanicsAt(cand, outs) == {i \in DOMAIN outs : IterationPanics2(cand, outs[i])}

FirstOf(indices) == CHOOSE i \in indices : \A j \in indices : i <= j

Validate2Returns(c, configs, outs) ==
    /\ kubeval' = configs[Len(configs)]
    /\ engine' = Remember(cands[c], configs, outs, Len(configs))
    /\ calls' = Record(calls,
                  Returned(c, cands[c], "Validate2", configs,
                           AllAnnotations2(cands[c], outs)))

Validate2Panics(c, configs, outs, p) ==
    /\ kubeval' = configs[p]
    /\ engine' = IF cands[c].bytes = Nil THEN engine
                 ELSE Remember(cands[c], configs, outs, p)
    /\ calls' = Record(calls,
                  Panicked(c, cands[c], "Validate2",
                           IF cands[c].bytes = Nil THEN <<>> ELSE SubSeq(configs, 1, p)))

\* Candidate.Validate (second definition), lines 370-428
Validate2(c) ==
    /\ build = 2
    /\ ~Crashed
    /\ calls.n < MaxCalls
    /\ \E configs \in {ConfigsFrom(kubeval, cands[c].schemas, 1, TRUE)} :
         \E outs \in Answers(cands[c], configs) :
           IF PanicsAt(cands[c], outs) = {}
           THEN Validate2Returns(c, configs, outs)
           ELSE Validate2Panics(c, configs, outs, FirstOf(PanicsAt(cands[c], outs)))
    /\ UNCHANGED <<report, loc, cands, pcs, seen, build>>

InitValidate ==
    /\ build \in {1, 2}
    /\ \E lists \in [CandidateIds -> SchemaLists] :
         cands = [c \in CandidateIds |-> NewCandidate(c, lists[c])]
    /\ kubeval = NoKubeval
    /\ engine = <<>>
    /\ calls = NoCalls
    /\ report = NoReport
    /\ loc = NoLoc
    /\ pcs = <<>>
    /\ seen = {}

NextValidate ==
    \E c \in CandidateIds : LoadBytes(c) \/ Validate(c) \/ Validate2(c)

SpecValidate == InitValidate /\ [][NextValidate]_vars

(***************************************************************************)
(* Validate on two Candidates at once (SpecConcurrent): one goroutine per  *)
(* Candidate, one step per statement that writes or reads the package      *)
(* variables of kubeval.  pcs[c] is the position of the goroutine of       *)
(* Candidate c, seen the configurations kubeval.Validate was entered with. *)
(***************************************************************************)
Hydrated(cand) == [cand EXCEPT !.bytes = <<FileContent(cand.file)>>]

AtStatement(c, stmt) == pcs[c].pc = stmt

CurrentSchema(c) == cands[c].schemas[pcs[c].i]

Goto(c, stmt) == [pcs EXCEPT ![c].pc = stmt]

\* the next iteration of the range loop, or the return
NextIteration(c) ==
    IF pcs[c].i < Len(cands[c].schemas)
    THEN [pcs EXCEPT ![c] = [pc |-> "SchemaLocation", i |-> pcs[c].i + 1]]
    ELSE [pcs EXCEPT ![c] = [pc |-> "return", i |-> pcs[c].i]]

Observation(c) == [cand |-> c, idx |-> pcs[c].i, cfg |-> kubeval]

\* kubeval.SchemaLocation = schema.SchemaLocation()
StmtSchemaLocation(c) ==
    /\ AtStatement(c, "SchemaLocation")
    /\ kubeval' = SetSchemaLocation(kubeval, CurrentSchema(c))
    /\ pcs' = Goto(c, "Version")
    /\ UNCHANGED <<report, loc, cands, engine, calls, seen, build>>

\* if schema.Version != "" { kubeval.Version = schema.Version }
StmtVersion(c) ==
    /\ AtStatement(c, "Version")
    /\ kubeval' = SetVersion(kubeval, CurrentSchema(c))
    /\ pcs' = Goto(c, "Strict")
    /\ UNCHANGED <<report, loc, cands, engine, calls, seen, build>>

\* kubeval.Strict = true, or kubeval.Strict = schema.Strict
StmtStrict(c) ==
    /\ AtStatement(c, "Strict")
    /\ kubeval' = IF build = 1 THEN SetStrict(kubeval, CurrentSchema(c))
                  ELSE SetStrict2(kubeval, CurrentSchema(c))
    /\ pcs' = Goto(c, "OpenShift")
    /\ UNCHANGED <<report, loc, cands, engine, calls, seen, build>>

\* kubeval.OpenShift = true or false by schema.ConfigType
StmtOpenShift(c) ==
    /\ AtStatement(c, "OpenShift")
    /\ kubeval' = SetOpenShift(kubeval, CurrentSchema(c))
    /\ pcs' = Goto(c, "Validate")
    /\ UNCHANGED <<report, loc, cands, engine, calls, seen, build>>

\* kubeval.Validate(*c.bytes, ...) reads the package variables
StmtValidate(c) ==
    /\ AtStatement(c, "Validate")
    /\ seen' = seen \cup {Observation(c)}
    /\ pcs' = NextIteration(c)
    /\ UNCHANGED <<report, loc, cands, kubeval, engine, calls, build>>

InitConcurrent ==
    /\ build \in {1, 2}
    /\ \E lists \in [CandidateIds -> SchemaLists] :
         /\ \A c, d \in CandidateIds : c # d => lists[c] # lists[d]
         /\ cands = [c \in CandidateIds |-> Hydrated(NewCandidate(c, lists[c]))]
    /\ pcs = [c \in CandidateIds |-> [pc |-> "SchemaLocation", i |-> 1]]
    /\ kubeval = NoKubeval
    /\ seen = {}
    /\ engine = <<>>
    /\ calls = NoCalls
    /\ report = NoReport
    /\ loc = NoLoc

NextConcurrent ==
    \E c \in CandidateIds :
      \/ StmtSchemaLocation(c)
      \/ StmtVersion(c)
      \/ StmtStrict(c)
      \/ StmtOpenShift(c)
      \/ StmtValidate(c)

SpecConcurrent == InitConcurrent /\ [][NextConcurrent]_vars

(***************************************************************************)
(* Properties of the report (SpecReport)                                   *)
(***************************************************************************)
NumFiles == Cardinality(report.candidates)

\* C1: with no candidates the conclusion is neutral, and it is neutral only
\* then; with candidates it is failure exactly when there are annotations and
\* success exactly when there are none.
ConclusionByCounts ==
    report.called =>
      /\ (NumFiles = 0 => report.Conclusion = "neutral")
      /\ (report.Conclusion = "neutral" => NumFiles = 0)
      /\ (NumFiles > 0 =>
            /\ (report.Conclusion = "failure" <=> report.numAnnotations > 0)
            /\ (report.Conclusion = "success" <=> report.numAnnotations = 0))

FailureReported ==
    /\ report.called
    /\ NumFiles > 0
    /\ report.numAnnotations > 0
    /\ report.Conclusion = "failure"

\* C2 as stated: over all inputs, failure iff there are annotations, neutral
\* iff there are no candidates, success otherwise.
ConclusionFailureIffAnnotations ==
    report.called =>
      /\ (report.Conclusion = "failure" <=> report.numAnnotations > 0)
      /\ (report.Conclusion = "neutral" <=> NumFiles = 0)
      /\ (report.Conclusion = "success" <=>
            ~(report.numAnnotations > 0) /\ ~(NumFiles = 0))

\* C2 amended: failure iff there are candidates and annotations, neutral iff
\* there are no candidates, success iff there are candidates and no
\* annotations; exactly one of the three holds.
ConclusionPartition ==
    report.called =>
      /\ report.Conclusion \in {"failure", "neutral", "success"}
      /\ (report.Conclusion = "failure" <=>
            NumFiles > 0 /\ report.numAnnotations > 0)
      /\ (report.Conclusion = "neutral" <=> NumFiles = 0)
      /\ (report.Conclusion = "success" <=>
            NumFiles > 0 /\ report.numAnnotations = 0)

NeutralWithAnnotations ==
    /\ report.called
    /\ NumFiles = 0
    /\ report.numAnnotations > 0
    /\ report.Conclusion = "neutral"

\* C10: with candidates the title is "<N> file(s) checked, <M> error(s)",
\* "file" singular exactly when N = 1 and "error" singular exactly when
\* M = 1, each chosen on its own count.
TitlePluralized ==
    (report.called /\ NumFiles > 0) =>
      /\ Len(report.Title) = 5
      /\ report.Title[1] = NumFiles
      /\ (report.Title[2] = "file" <=> NumFiles = 1)
      /\ (report.Title[2] = "files" <=> NumFiles # 1)
      /\ report.Title[3] = "checked,"
      /\ report.Title[4] = report.numAnnotations
      /\ (report.Title[5] = "error" <=> report.numAnnotations = 1)
      /\ (report.Title[5] = "errors" <=> report.numAnnotations # 1)

TwoFilesOneError ==
    /\ report.called
    /\ report.Title = <<2, "files", "checked,", 1, "error">>

\* C12: for the same non-empty set of candidates createFinalCheckRun gives
\* the same summary on every run, whatever order the candidates are visited in.
SummaryDeterministic ==
    [][(/\ report.called
        /\ report'.candidates = report.candidates
        /\ NumFiles > 0)
       => report'.Summary = report.Summary]_vars

\* a run over files 1 and 2 whose summary lists file 2 first; the summary
\* listing file 1 first is reachable for the same candidates as well
SummaryListsSecondFileFirst ==
    /\ report.called
    /\ report.candidates = {1, 2}
    /\ report.Summary = <<MarkdownListItem(2), MarkdownListItem(1)>>

(***************************************************************************)
(* Properties of the line localizers (SpecLocalize)                        *)
(***************************************************************************)
LocPointer ==
    IF loc.fn = "lineNumbers" THEN OpPathRemove(loc.context)
    ELSE OpPathDefault(loc.context)

LocPatchFails == ~\E i \in DOMAIN loc.doc : loc.doc[i].path = LocPointer

LocHunks ==
    UnifiedDiffHunks(loc.doc,
      PatchReplace(loc.doc, LocPointer, placeholderString).bytes, 0)

NoPlaceholderIn(hunks) ==
    \A h \in DOMAIN hunks :
      \A k \in DOMAIN hunks[h].Body :
        hunks[h].Body[k].line.val # placeholderString

LocNoPlaceholderHunk == NoPlaceholderIn(LocHunks)

\* C6: a localizer never raises; it returns {1,1} when the violation path
\* does not resolve against the document, and the sentinel localizer returns
\* {1,1} when no hunk of the diff holds the sentinel (an empty diff included).
LocalizerDegrades ==
    loc.fn # "" =>
      /\ ~loc.ret.panic
      /\ (LocPatchFails => loc.ret = LineRange(1, 1))
      /\ (loc.fn = "detectLineNumbersDefault" /\ ~LocPatchFails /\ LocNoPlaceholderHunk
            => loc.ret = LineRange(1, 1))

DegradedWithoutPlaceholderHunk ==
    /\ loc.fn = "detectLineNumbersDefault"
    /\ ~LocPatchFails
    /\ LocNoPlaceholderHunk
    /\ LocHunks # <<>>
    /\ loc.ret = LineRange(1, 1)

\* the sentinel replace changes line l of the document and no other line
OnlyLineDiffers(doc, patched, l) ==
    /\ Len(patched) = Len(doc)
    /\ \A i \in DOMAIN doc : (patched[i] # doc[i]) <=> i = l

ChangesOnlyLine(l) ==
    OnlyLineDiffers(loc.doc, PatchReplace(loc.doc, LocPointer, placeholderString).bytes, l)

\* C7: when the addressed field is on the single line L and the sentinel
\* replace changes only that line, the localizer reports the range {L, L}.
LocalizerReportsFieldLine ==
    \A l \in DOMAIN loc.doc :
      (/\ loc.fn = "detectLineNumbersDefault"
       /\ loc.doc[l].path = LocPointer
       /\ ChangesOnlyLine(l))
      => loc.ret = LineRange(l, l)

\* what the code does on the spec's example: replicas on line 4 gives {4,5}
ReplicasLineFourReported ==
    /\ loc.fn = "detectLineNumbersDefault"
    /\ Len(loc.doc) >= 4
    /\ loc.doc[4].path = <<"spec", "replicas">>
    /\ LocPointer = <<"spec", "replicas">>
    /\ ChangesOnlyLine(4)
    /\ loc.ret = LineRange(4, 5)

(***************************************************************************)
(* Properties of Validate, one call at a time (SpecValidate)               *)
(***************************************************************************)
LoggedCalls == {calls.last[k] : k \in DOMAIN calls.last}

\* C3: Validate on a Candidate without bytes never invokes the validator and
\* returns exactly one annotation, whatever the number of its schema specs.
NoBytesOneAnnotation ==
    \A call \in LoggedCalls :
      call.bytes = Nil =>
        /\ ~call.panicked
        /\ call.invoked = <<>>
        /\ Len(call.ret) = 1

\* what the first definition does: one annotation per schema spec
NoBytesAnnotationPerSchema ==
    \E call \in LoggedCalls :
      /\ call.fn = "Validate"
      /\ call.bytes = Nil
      /\ Len(call.schemas) = 2
      /\ call.invoked = <<>>
      /\ Len(call.ret) = 2

\* C5: two Validate calls in a row on the same unchanged Candidate return
\* identical annotation lists.
ValidateIdempotent ==
    (/\ Len(calls.last) = 2
     /\ calls.last[1].cand = calls.last[2].cand
     /\ calls.last[1].bytes = calls.last[2].bytes
     /\ calls.last[1].schemas = calls.last[2].schemas
     /\ ~calls.last[1].panicked
     /\ ~calls.last[2].panicked)
    => calls.last[1].ret = calls.last[2].ret

\* the first definition, called twice in a row on one unchanged Candidate,
\* returned two different lists
SecondCallDiffers ==
    /\ Len(calls.last) = 2
    /\ calls.last[1].fn = "Validate"
    /\ calls.last[1].cand = calls.last[2].cand
    /\ calls.last[1].bytes = calls.last[2].bytes
    /\ calls.last[1].schemas = calls.last[2].schemas
    /\ calls.last[1].invoked # calls.last[2].invoked
    /\ calls.last[1].ret # calls.last[2].ret

IsSortedByKey(annotations) ==
    \A i, j \in DOMAIN annotations :
      i < j =>
        \/ annotations[i].Path < annotations[j].Path
        \/ /\ annotations[i].Path = annotations[j].Path
           /\ annotations[i].StartLine < annotations[j].StartLine
        \/ /\ annotations[i].Path = annotations[j].Path
           /\ annotations[i].StartLine = annotations[j].StartLine
           /\ annotations[i].EndLine <= annotations[j].EndLine

\* C8: the list Validate returns is ascending by (file path, start line,
\* end line).
ValidateReturnsSorted ==
    \A call \in LoggedCalls : ~call.panicked => IsSortedByKey(call.ret)

\* the second definition returned a list that is not in order
UnsortedReturned ==
    \E call \in LoggedCalls :
      /\ call.fn = "Validate2"
      /\ ~call.panicked
      /\ Len(call.ret) = 2
      /\ call.ret[1].StartLine > call.ret[2].StartLine

\* the validator's answer to the i-th invocation of a logged call
AnswerOf(call, i) == engine[<<call.cand, call.bytes, call.invoked[i]>>]

FailedSpecs(call) == {i \in DOMAIN call.invoked : AnswerOf(call, i).err}

IsEngineFailureAnnotation(a, results) ==
    /\ a.StartLine = 1
    /\ a.EndLine = 1
    /\ a.AnnotationLevel = "failure"
    /\ a.RawDetails = Nil
    /\ IF Len(results) > 0
       THEN Len(a.Title) >= 5 /\ a.Title[2] = results[1].Kind
       ELSE Len(a.Title) = 4 /\ a.Title[1] = "Internal error when validating against"

\* C9: an engine failure for a schema spec gives exactly one failure
\* annotation with range {1,1} for it, titled with the resource kind when
\* there is a result and with the schema alone when there is none; Validate
\* is not aborted and every schema spec of the Candidate is validated.
EngineFailureOneAnnotation ==
    \A call \in LoggedCalls :
      (call.bytes # Nil /\ FailedSpecs(call) # {}) =>
        /\ ~call.panicked
        /\ Len(call.invoked) = Len(call.schemas)
        /\ Cardinality({k \in DOMAIN call.ret : call.ret[k].RawDetails = Nil})
             = Cardinality(FailedSpecs(call))
        /\ \A i \in FailedSpecs(call) :
             \E k \in DOMAIN call.ret :
               IsEngineFailureAnnotation(call.ret[k], AnswerOf(call, i).results)

\* the second definition panicked on an engine failure without results
EngineFailurePanics ==
    \E call \in LoggedCalls :
      /\ call.fn = "Validate2"
      /\ call.bytes # Nil
      /\ call.panicked
      /\ AnswerOf(call, Len(call.invoked)).err
      /\ AnswerOf(call, Len(call.invoked)).results = <<>>

\* the validator invocations of the logged calls: <<call, index>>
Invocations == {<<call, i>> : call \in LoggedCalls, i \in 1..MaxSchemas}

SpecOf(inv) == inv[1].schemas[inv[2]]

ConfigOf(inv) == inv[1].invoked[inv[2]]

Invoked(inv) == inv[2] \in DOMAIN inv[1].invoked

\* C11: in any sequence of Validate calls the configuration in effect at a
\* validator invocation is determined by the schema spec being processed
\* alone (two invocations for equal specs run with equal configurations,
\* whatever was processed before), and the strictness is the spec's own flag.
ConfigDeterminedBySpec ==
    /\ \A x, y \in Invocations :
         (Invoked(x) /\ Invoked(y) /\ SpecOf(x) = SpecOf(y))
           => ConfigOf(x) = ConfigOf(y)
    /\ \A x \in Invocations :
         Invoked(x) => ConfigOf(x).Strict = SpecOf(x).Strict

\* a spec with an empty version was validated with the version an earlier
\* spec had left in kubeval.Version
VersionLeftBehind ==
    \E x \in Invocations :
      /\ Invoked(x)
      /\ SpecOf(x).Version = ""
      /\ ConfigOf(x).Version = "1.10.0"
      /\ ConfigOf(x).SchemaLocation = SchemaLocation(SpecOf(x))

(***************************************************************************)
(* Properties of concurrent validation (SpecConcurrent)                    *)
(***************************************************************************)
OwnSchema(o) == cands[o.cand].schemas[o.idx]

\* C4: under every interleaving of Validate on two Candidates, each
\* invocation of the validator observes the schema location, version,
\* strictness and platform variant of its own Candidate's current schema spec.
ConcurrentObservesOwnConfig ==
    \A o \in seen :
      /\ o.cfg.SchemaLocation = SchemaLocation(OwnSchema(o))
      /\ o.cfg.Version = OwnSchema(o).Version
      /\ o.cfg.Strict = OwnSchema(o).Strict
      /\ o.cfg.OpenShift = (OwnSchema(o).ConfigType = "openstack")

\* an invocation for a spec with a pinned version and strict checking (which
\* a lone Validate configures as the spec says) entered the validator with
\* the version another Candidate's spec had written to kubeval.Version
CrossTalkObserved ==
    \E o \in seen :
      /\ OwnSchema(o).Version # ""
      /\ OwnSchema(o).Strict
      /\ o.cfg.Version # OwnSchema(o).Version
      /\ \E d \in CandidateIds \ {o.cand} : \E k \in DOMAIN cands[d].schemas :
            o.cfg.Version = cands[d].schemas[k].Version

====
